---- MODULE Spec2Model ----
(***************************************************************************)
(* pytorch_lightning/utilities/apply_func.py                               *)
(*                                                                         *)
(* apply_to_collection walks a nested collection and applies a function to *)
(* every element that is an instance of dtype; transfer_batch_to_device    *)
(* specialises it to tensors.  The recursion is modelled as an explicit    *)
(* call stack: one frame per active apply_to_collection call.              *)
(***************************************************************************)
EXTENDS Integers, Sequences, FiniteSets, TLC

\* Bounds of the input universe.
MaxWidth == 2
MaxDepth == 2

(***************************************************************************)
(* Python values.  Every value is a record of the same shape:              *)
(*   type   the name of its class                                          *)
(*   num    the number of an int, the identity/content of a tensor         *)
(*   device where a tensor lives ("-" for everything else)                 *)
(*   chars  the characters of a str                                        *)
(*   keys   the keys of a mapping, in iteration order                      *)
(*   items  the values of a mapping (parallel to keys), the elements of a  *)
(*          sequence, or the fields of a named tuple                       *)
(***************************************************************************)
Value(t, n, dev, cs, ks, its) ==
    [type |-> t, num |-> n, device |-> dev, chars |-> cs, keys |-> ks, items |-> its]

IntVal(n) == Value("int", n, "-", <<>>, <<>>, <<>>)
TensorVal(n, dev) == Value("Tensor", n, dev, <<>>, <<>>, <<>>)
StrVal(cs) == Value("str", 0, "-", cs, <<>>, <<>>)
NoValue == Value("<no value>", 0, "-", <<>>, <<>>, <<>>)

KeySeq == <<"a", "b", "c", "d">>
MappingOf(t, its) == Value(t, 0, "-", <<>>, SubSeq(KeySeq, 1, Len(its)), its)
SequenceOf(t, its) == Value(t, 0, "-", <<>>, <<>>, its)
Range(n) == SequenceOf("range", [i \in 1..n |-> IntVal(i - 1)])

\* The classes of the universe and what isinstance() answers for them:
\* every class and abstract base class a value of that class is an instance of.
MappingTypes == {"dict", "OrderedDict", "defaultdict"}
NamedTupleTypes == {"Point"}
ListLikeTypes == {"list", "tuple"}

Supertypes(t) ==
    CASE t = "dict" -> {"dict", "Mapping"}
      [] t = "OrderedDict" -> {"OrderedDict", "dict", "Mapping"}
      [] t = "defaultdict" -> {"defaultdict", "dict", "Mapping"}
      [] t = "list" -> {"list", "Sequence"}
      [] t = "tuple" -> {"tuple", "Sequence"}
      [] t = "range" -> {"range", "Sequence"}
      [] t = "Point" -> {"Point", "tuple", "Sequence"}
      [] t = "str" -> {"str", "Sequence"}
      [] OTHER -> {t}

\* isinstance(data, dtype), dtype a set of class names
IsInstance(data, types) == Supertypes(data.type) \cap types # {}

\* hasattr(data, '_fields')
HasFields(data) == data.type \in NamedTupleTypes

\* What iterating a value yields: `for d in data` / `data.items()` values.
\* A str yields its characters, each again a str.
Iter(data) ==
    IF data.type = "str"
    THEN [i \in 1..Len(data.chars) |-> StrVal(<<data.chars[i]>>)]
    ELSE data.items

(***************************************************************************)
(* The inputs: the leaves, and to depth MaxDepth every container of at     *)
(* most MaxWidth children, all leaves but at most one, which is one of the *)
(* representative containers of the depth below.                           *)
(***************************************************************************)
LeafSeq == <<TensorVal(1, "cpu"), IntVal(1), StrVal(<<"a", "b">>)>>
Leaves == {LeafSeq[i] : i \in 1..Len(LeafSeq)}

Children(N, n) ==
    {its \in UNION {[1..k -> Leaves \cup N] : k \in 0..n} :
        Cardinality({i \in 1..Len(its) : its[i] \in N}) <= 1}

Containers(N) ==
    {MappingOf(t, its) : t \in MappingTypes, its \in Children(N, MaxWidth)}
    \cup {SequenceOf(t, its) : t \in ListLikeTypes, its \in Children(N, MaxWidth)}
    \cup {SequenceOf(t, its) : t \in NamedTupleTypes,
                               its \in {c \in Children(N, 2) : Len(c) = 2}}
    \cup {Range(n) : n \in 0..MaxWidth}

FirstLeaves(n) == SubSeq(LeafSeq, 1, IF n < Len(LeafSeq) THEN n ELSE Len(LeafSeq))

Wrap(v) ==
    CASE v.type \in MappingTypes -> MappingOf(v.type, <<v>>)
      [] v.type \in NamedTupleTypes -> SequenceOf(v.type, <<v, IntVal(1)>>)
      [] v.type = "range" -> SequenceOf("list", <<v>>)
      [] OTHER -> SequenceOf(v.type, <<v>>)

RECURSIVE Nest(_)
Nest(d) ==
    IF d = 0 THEN {}
    ELSE IF d = 1
    THEN {MappingOf(t, FirstLeaves(MaxWidth)) : t \in MappingTypes}
         \cup {SequenceOf(t, FirstLeaves(MaxWidth)) : t \in ListLikeTypes}
         \cup {SequenceOf(t, FirstLeaves(2)) : t \in NamedTupleTypes}
         \cup {Range(MaxWidth)}
    ELSE {Wrap(v) : v \in Nest(d - 1)}

Inputs == Leaves \cup UNION {Containers(Nest(d)) : d \in 0..(MaxDepth - 1)}

\* The leaf types, functions and extra arguments callers pass.
Dtypes == {{"int", "Tensor"}, {"str"}, {"dict", "tuple"}, {"list", "int"}}
Devices == {"cpu", "cuda:0"}
Fn(name, dev) == [name |-> name, device |-> dev]
\* add = lambda x, k: x + k        wrap = lambda x: [x, x]
Callers == {[function |-> Fn("add", "-"), args |-> <<1>>],
            [function |-> Fn("wrap", "-"), args |-> <<>>]}

(***************************************************************************)
(* Outcomes of a call that may raise: a value, or an exception.            *)
(***************************************************************************)
Ok(v) == [ok |-> TRUE, val |-> v, exc |-> "-"]
Err(e) == [ok |-> FALSE, val |-> NoValue, exc |-> e]

\* To that hands the tensor back where it is
ToNowhere(tensor, device) ==
    IF tensor.type = "Tensor"
    THEN Ok(tensor)
    ELSE Err("AttributeError: object has no attribute 'to'")

\* tensor.to(device, non_blocking=True), the closure `to` of
\* transfer_batch_to_device: only a tensor has the method
To(tensor, device) ==
    IF tensor.type = "Tensor"
    THEN Ok(TensorVal(tensor.num, device))
    ELSE Err("AttributeError: object has no attribute 'to'")

\* function(data, *args, **kwargs)
Call(function, x, args) ==
    CASE function.name = "to" ->
            IF Len(args) # 0 THEN Err("TypeError: to() takes 1 positional argument")
            ELSE To(x, function.device)
      [] function.name = "add" ->
            IF Len(args) # 1 THEN Err("TypeError: <lambda>() requires 2 positional arguments")
            ELSE IF x.type = "int" THEN Ok(IntVal(x.num + args[1]))
            ELSE IF x.type = "Tensor" THEN Ok(TensorVal(x.num + args[1], x.device))
            ELSE Err("TypeError: unsupported operand type(s) for +")
      [] function.name = "wrap" ->
            IF Len(args) # 0 THEN Err("TypeError: <lambda>() takes 1 positional argument")
            ELSE Ok(SequenceOf("list", <<x, x>>))

\* elem_type(*a): the constructor of class t called with the positional
\* arguments a, for the classes and argument shapes of the universe.
Construct(t, a) ==
    CASE t \in {"dict", "OrderedDict"} ->
            IF Len(a) = 0 THEN Ok(MappingOf(t, <<>>))
            ELSE IF Len(a) = 1 /\ "Mapping" \in Supertypes(a[1].type)
            THEN Ok(Value(t, 0, "-", <<>>, a[1].keys, a[1].items))
            ELSE Err("TypeError: dict argument")
      [] t = "defaultdict" ->
            IF Len(a) = 0 THEN Ok(MappingOf(t, <<>>))
            ELSE Err("TypeError: first argument must be callable or None")
      [] t \in {"list", "tuple"} ->
            IF Len(a) = 0 THEN Ok(SequenceOf(t, <<>>))
            ELSE IF Len(a) = 1 /\ "Sequence" \in Supertypes(a[1].type)
            THEN Ok(SequenceOf(t, Iter(a[1])))
            ELSE Err("TypeError: sequence argument")
      [] t = "range" ->
            IF Len(a) \in 1..3 /\ \A i \in 1..Len(a) : a[i].type = "int"
            THEN Ok(Range(IF Len(a) = 1 THEN a[1].num ELSE 0))
            ELSE Err("TypeError: object cannot be interpreted as an integer")
      [] t = "Point" ->
            IF Len(a) = 2 THEN Ok(SequenceOf(t, a))
            ELSE Err("TypeError: __new__() positional arguments")
      [] OTHER -> Err("TypeError: constructor")

\* Branch with the structural checks made before the leaf check
BranchStructureFirst(d, dt) ==
    IF IsInstance(d, {"Mapping"}) THEN "mapping"
    ELSE IF IsInstance(d, {"tuple"}) /\ HasFields(d) THEN "namedtuple"
    ELSE IF IsInstance(d, {"Sequence"}) /\ ~IsInstance(d, {"str"}) THEN "sequence"
    ELSE IF IsInstance(d, dt) THEN "leaf"
    ELSE "unchanged"

\* Branch with the generic-sequence check made before the named-tuple check
BranchSequenceFirst(d, dt) ==
    IF IsInstance(d, dt) THEN "leaf"
    ELSE IF IsInstance(d, {"Mapping"}) THEN "mapping"
    ELSE IF IsInstance(d, {"Sequence"}) /\ ~IsInstance(d, {"str"}) THEN "sequence"
    ELSE IF IsInstance(d, {"tuple"}) /\ HasFields(d) THEN "namedtuple"
    ELSE "unchanged"

\* Branch without `not isinstance(data, str)`
BranchStrIsSequence(d, dt) ==
    IF IsInstance(d, dt) THEN "leaf"
    ELSE IF IsInstance(d, {"Mapping"}) THEN "mapping"
    ELSE IF IsInstance(d, {"tuple"}) /\ HasFields(d) THEN "namedtuple"
    ELSE IF IsInstance(d, {"Sequence"}) THEN "sequence"
    ELSE "unchanged"

\* the if/elif chain of apply_to_collection
Branch(d, dt) ==
    IF IsInstance(d, dt) THEN "leaf"
    ELSE IF IsInstance(d, {"Mapping"}) THEN "mapping"
    ELSE IF IsInstance(d, {"tuple"}) /\ HasFields(d) THEN "namedtuple"
    ELSE IF IsInstance(d, {"Sequence"}) /\ ~IsInstance(d, {"str"}) THEN "sequence"
    ELSE "unchanged"

\* {k: ... for k, v in data.items()}: a fresh dict of the mapped values
DictComprehension(d, out) == Value("dict", 0, "-", <<>>, d.keys, out)
\* ListComprehension that keeps the elements of data instead of the mapped ones
ListComprehensionUnmapped(d, out) == SequenceOf("list", d.items)

\* [... for d in data]: a fresh list of the mapped elements
ListComprehension(d, out) == SequenceOf("list", out)

(***************************************************************************)
(* State.                                                                  *)
(*   pc        "idle", "running", "returned" or "raised"                   *)
(*   caller    which function the caller invoked                           *)
(*   data, dtype, function, args   the arguments of the outermost call     *)
(*   stack     the active apply_to_collection calls, outermost first:      *)
(*             data, args of the call, the position `path` of data in the  *)
(*             input, and `out`, the children mapped so far                *)
(*   result    the value returned to the caller                            *)
(*   exc       the exception that reached the caller                       *)
(* History:                                                                *)
(*   entered   the calls of apply_to_collection, in order, each with the   *)
(*             branch its data took                                        *)
(*   calls     the calls of function, in order                             *)
(*   rets      the returns of apply_to_collection, in order                *)
(***************************************************************************)
VARIABLES pc, caller, data, dtype, function, args, stack, result, exc,
          entered, calls, rets

vars == <<pc, caller, data, dtype, function, args, stack, result, exc,
          entered, calls, rets>>

Init ==
    /\ pc = "idle"
    /\ caller = "-"
    /\ data = NoValue
    /\ dtype = {}
    /\ function = Fn("-", "-")
    /\ args = <<>>
    /\ stack = <<>>
    /\ result = NoValue
    /\ exc = "-"
    /\ entered = <<>>
    /\ calls = <<>>
    /\ rets = <<>>

Top == stack[Len(stack)]
Frame(d, a, p) == [data |-> d, args |-> a, path |-> p, out |-> <<>>]
Entry(d, dt, p) == [path |-> p, branch |-> Branch(d, dt)]

\* a call of apply_to_collection from outside
Enter(name, d, dt, fn, a) ==
    /\ pc' = "running"
    /\ caller' = name
    /\ data' = d
    /\ dtype' = dt
    /\ function' = fn
    /\ args' = a
    /\ stack' = <<Frame(d, a, <<>>)>>
    /\ entered' = <<Entry(d, dt, <<>>)>>
    /\ UNCHANGED <<result, exc, calls, rets>>

ApplyToCollection ==
    /\ pc = "idle"
    /\ \E d \in Inputs, dt \in Dtypes, c \in Callers :
          Enter("apply_to_collection", d, dt, c.function, c.args)

TransferBatchToDevice ==
    /\ pc = "idle"
    /\ \E batch \in Inputs, device \in Devices :
          Enter("transfer_batch_to_device", batch, {"Tensor"}, Fn("to", device), <<>>)

\* the active call returns v: to the caller, or into its parent's comprehension
Return(v) ==
    /\ rets' = Append(rets, [path |-> Top.path, data |-> Top.data, val |-> v])
    /\ IF Len(stack) = 1
       THEN /\ pc' = "returned"
            /\ result' = v
            /\ stack' = <<>>
       ELSE /\ pc' = pc
            /\ result' = result
            /\ stack' = [SubSeq(stack, 1, Len(stack) - 1)
                            EXCEPT ![Len(stack) - 1].out = Append(@, v)]
    /\ exc' = exc

\* Raise caught where it happens: the failing call returns None
RaiseSwallowed(e) ==
    /\ rets' = Append(rets, [path |-> Top.path, data |-> Top.data, val |-> NoValue])
    /\ IF Len(stack) = 1
       THEN /\ pc' = "returned"
            /\ result' = NoValue
            /\ stack' = <<>>
       ELSE /\ pc' = pc
            /\ result' = result
            /\ stack' = [SubSeq(stack, 1, Len(stack) - 1)
                            EXCEPT ![Len(stack) - 1].out = Append(@, NoValue)]
    /\ exc' = e

\* an exception leaves every active call: nothing catches it
Raise(e) ==
    /\ pc' = "raised"
    /\ exc' = e
    /\ stack' = <<>>
    /\ UNCHANGED <<result, rets>>

Finish(r) == IF r.ok THEN Return(r.val) ELSE Raise(r.exc)

Running(b) == pc = "running" /\ Branch(Top.data, dtype) = b

\* if isinstance(data, dtype): return function(data, *args, **kwargs)
BreakingCondition ==
    /\ Running("leaf")
    /\ calls' = Append(calls, [path |-> Top.path, arg |-> Top.data, args |-> Top.args])
    /\ Finish(Call(function, Top.data, Top.args))
    /\ UNCHANGED <<caller, data, dtype, function, args, entered>>

\* Recurse that walks data from its last element to its first
RecurseRightToLeft ==
    /\ pc = "running"
    /\ Branch(Top.data, dtype) \in {"mapping", "namedtuple", "sequence"}
    /\ Len(Top.out) < Len(Iter(Top.data))
    /\ LET i == Len(Iter(Top.data)) - Len(Top.out)
           d == Iter(Top.data)[i]
           p == Append(Top.path, i)
       IN /\ stack' = Append(stack, Frame(d, Top.args, p))
          /\ entered' = Append(entered, Entry(d, dtype, p))
    /\ UNCHANGED <<pc, caller, data, dtype, function, args, result, exc, calls, rets>>

\* Recurse that recurses only from the outermost call: the elements of a
\* nested container are copied, not mapped
RecurseOneLevel ==
    /\ pc = "running"
    /\ Branch(Top.data, dtype) \in {"mapping", "namedtuple", "sequence"}
    /\ Len(Top.out) < Len(Iter(Top.data))
    /\ LET i == Len(Top.out) + 1
           d == Iter(Top.data)[i]
           p == Append(Top.path, i)
       IN IF Len(stack) = 1
          THEN /\ stack' = Append(stack, Frame(d, Top.args, p))
               /\ entered' = Append(entered, Entry(d, dtype, p))
          ELSE /\ stack' = [stack EXCEPT ![Len(stack)].out = Append(@, d)]
               /\ entered' = entered
    /\ UNCHANGED <<pc, caller, data, dtype, function, args, result, exc, calls, rets>>

\* the next apply_to_collection(v, dtype, function, *args, **kwargs) of a
\* comprehension or generator over data
Recurse ==
    /\ pc = "running"
    /\ Branch(Top.data, dtype) \in {"mapping", "namedtuple", "sequence"}
    /\ Len(Top.out) < Len(Iter(Top.data))
    /\ LET i == Len(Top.out) + 1
           d == Iter(Top.data)[i]
           p == Append(Top.path, i)
       IN /\ stack' = Append(stack, Frame(d, Top.args, p))
          /\ entered' = Append(entered, Entry(d, dtype, p))
    /\ UNCHANGED <<pc, caller, data, dtype, function, args, result, exc, calls, rets>>

Mapped(b) == Running(b) /\ Len(Top.out) = Len(Iter(Top.data))

\* RebuildMapping that returns the comprehension's dict, not elem_type of it
RebuildMappingAsDict ==
    /\ Mapped("mapping")
    /\ Return(DictComprehension(Top.data, Top.out))
    /\ UNCHANGED <<caller, data, dtype, function, args, entered, calls>>

\* return elem_type({k: ... for k, v in data.items()})
RebuildMapping ==
    /\ Mapped("mapping")
    /\ Finish(Construct(Top.data.type, <<DictComprehension(Top.data, Top.out)>>))
    /\ UNCHANGED <<caller, data, dtype, function, args, entered, calls>>

\* return elem_type(*(... for d in data))
RebuildNamedTuple ==
    /\ Mapped("namedtuple")
    /\ Finish(Construct(Top.data.type, Top.out))
    /\ UNCHANGED <<caller, data, dtype, function, args, entered, calls>>

\* return elem_type([... for d in data])
RebuildSequence ==
    /\ Mapped("sequence")
    /\ Finish(Construct(Top.data.type, <<ListComprehension(Top.data, Top.out)>>))
    /\ UNCHANGED <<caller, data, dtype, function, args, entered, calls>>

\* ReturnData that falls off the end of the function: returns None
ReturnDataNone ==
    /\ Running("unchanged")
    /\ Return(Value("NoneType", 0, "-", <<>>, <<>>, <<>>))
    /\ UNCHANGED <<caller, data, dtype, function, args, entered, calls>>

\* return data
ReturnData ==
    /\ Running("unchanged")
    /\ Return(Top.data)
    /\ UNCHANGED <<caller, data, dtype, function, args, entered, calls>>

Next ==
    \/ ApplyToCollection
    \/ TransferBatchToDevice
    \/ BreakingCondition
    \/ Recurse
    \/ RebuildMapping
    \/ RebuildNamedTuple
    \/ RebuildSequence
    \/ ReturnData

Spec == Init /\ [][Next]_vars

(***************************************************************************)
(* Vocabulary of the properties.                                           *)
(***************************************************************************)
RECURSIVE ValidPath(_, _)
ValidPath(v, p) ==
    \/ p = <<>>
    \/ /\ Head(p) \in 1..Len(Iter(v))
       /\ ValidPath(Iter(v)[Head(p)], Tail(p))

RECURSIVE NodeAt(_, _)
NodeAt(v, p) == IF p = <<>> THEN v ELSE NodeAt(Iter(v)[Head(p)], Tail(p))

Extends(q, p) == Len(p) < Len(q) /\ SubSeq(q, 1, Len(p)) = p
Parent(p) == SubSeq(p, 1, Len(p) - 1)

\* the kinds of value, told by class alone
IsMappingValue(v) == v.type \in MappingTypes
IsNamedTupleValue(v) == v.type \in NamedTupleTypes
IsPlainSequenceValue(v) == v.type \in ListLikeTypes \cup {"range"}
IsContainerValue(v) == IsMappingValue(v) \/ IsNamedTupleValue(v) \/ IsPlainSequenceValue(v)
Matches(v) == \E t \in dtype : t \in Supertypes(v.type)

Returned(p) == \E k \in 1..Len(rets) : rets[k].path = p
RetVal(p) == rets[CHOOSE k \in 1..Len(rets) : rets[k].path = p].val
EnteredPaths == {entered[i].path : i \in 1..Len(entered)}
CalledPaths == {calls[i].path : i \in 1..Len(calls)}

\* every call of apply_to_collection was made on the node of the input at its path
OnInput ==
    /\ \A i \in 1..Len(entered) : ValidPath(data, entered[i].path)
    /\ \A k \in 1..Len(rets) :
          ValidPath(data, rets[k].path) /\ rets[k].data = NodeAt(data, rets[k].path)

\* the children of the call at p returned the elements of r, in order
ChildrenOf(p, m, r) ==
    /\ Len(r.items) = Len(m.items)
    /\ \A i \in 1..Len(m.items) :
          /\ Returned(Append(p, i))
          /\ r.items[i] = RetVal(Append(p, i))

\* C1: a value that is an instance of the leaf types is passed whole to the
\* function, with the caller's extra arguments, and the call returns exactly
\* what the function returns; this holds for mappings, named tuples and
\* sequences that match too: they are not recursed into.
C1_LeafIsApplied ==
    /\ OnInput
    /\ \A i \in 1..Len(entered) :
          LET p == entered[i].path
              v == NodeAt(data, p)
          IN Matches(v) =>
                /\ entered[i].branch = "leaf"
                /\ \A q \in EnteredPaths : ~Extends(q, p)
                /\ Returned(p) =>
                      /\ Call(function, v, args).ok
                      /\ RetVal(p) = Call(function, v, args).val
    /\ (pc = "returned" /\ Matches(data)) => result = Call(function, data, args).val

C1_Witness ==
    /\ pc = "returned"
    /\ caller = "apply_to_collection"
    /\ IsMappingValue(data) /\ Len(data.items) = 2
    /\ Matches(data)
    /\ result = SequenceOf("list", <<data, data>>)

C3_NamedTupleRebuilt ==
    /\ OnInput
    /\ \A k \in 1..Len(rets) :
          LET p == rets[k].path
              n == NodeAt(data, p)
              r == rets[k].val
          IN (IsNamedTupleValue(n) /\ ~Matches(n)) =>
                /\ r.type = n.type
                /\ ChildrenOf(p, n, r)
                /\ p = <<>> => result = r
    /\ \A i \in 1..Len(entered) :
          LET v == NodeAt(data, entered[i].path)
          IN /\ IsNamedTupleValue(v) => entered[i].branch \in {"leaf", "namedtuple"}
             /\ v.type = "tuple" => entered[i].branch \in {"leaf", "sequence"}

C3_Witness ==
    /\ pc = "returned"
    /\ data.type = "Point"
    /\ ~Matches(data)
    /\ result.type = "Point" /\ Len(result.items) = 2
    /\ result.items[1] # data.items[1]
    /\ entered[1].branch = "namedtuple"

C5_StrNotDecomposed ==
    /\ OnInput
    /\ \A i \in 1..Len(entered) :
          LET p == entered[i].path
          IN /\ p # <<>> => NodeAt(data, Parent(p)).type # "str"
             /\ NodeAt(data, p).type = "str" =>
                   entered[i].branch = (IF "str" \in dtype THEN "leaf" ELSE "unchanged")
    /\ \A j \in 1..Len(calls) :
          LET p == calls[j].path
          IN /\ ValidPath(data, p)
             /\ p # <<>> => NodeAt(data, Parent(p)).type # "str"
    /\ \A k \in 1..Len(rets) :
          LET s == NodeAt(data, rets[k].path)
          IN s.type = "str" =>
                rets[k].val = (IF "str" \in dtype THEN Call(function, s, args).val ELSE s)

C5_Witness ==
    /\ pc = "returned"
    /\ data.type = "list" /\ Len(data.items) = 2
    /\ data.items[1].type = "str" /\ Len(data.items[1].chars) = 2
    /\ data.items[2].type = "dict" /\ Len(data.items[2].items) = 2
    /\ "str" \in dtype
    /\ Len(calls) = 1
    /\ result.items[1] = SequenceOf("list", <<data.items[1], data.items[1]>>)

\* C6: a value that neither matches the leaf types nor is a mapping, a named
\* tuple or a non-str sequence is returned unchanged: the function is not
\* called on it and the call on it does not raise.
C6_OtherReturnedUnchanged ==
    /\ OnInput
    /\ \A i \in 1..Len(entered) :
          LET p == entered[i].path
              v == NodeAt(data, p)
          IN (~Matches(v) /\ ~IsContainerValue(v)) =>
                /\ p \notin CalledPaths
                /\ \/ pc = "running" /\ Top.path = p
                   \/ Returned(p) /\ RetVal(p) = v
                /\ (p = <<>> /\ pc # "running") => (pc = "returned" /\ result = v)

C6_Witness ==
    /\ pc = "returned"
    /\ data.type = "int"
    /\ dtype = {"Tensor"}
    /\ result = data
    /\ calls = <<>>

\* the relation between an input and its mapped image: the same kind of
\* container with the same keys or length at every non-leaf position, the
\* function's result at every matching leaf, the input itself elsewhere
RECURSIVE SameShape(_, _)
SameShape(in, out) ==
    IF Matches(in) THEN out = Call(function, in, args).val
    ELSE IF IsMappingValue(in)
    THEN /\ IsMappingValue(out)
         /\ out.keys = in.keys
         /\ Len(out.items) = Len(in.items)
         /\ \A i \in 1..Len(in.items) : SameShape(in.items[i], out.items[i])
    ELSE IF IsNamedTupleValue(in) \/ IsPlainSequenceValue(in)
    THEN /\ IsNamedTupleValue(out) = IsNamedTupleValue(in)
         /\ IsPlainSequenceValue(out) = IsPlainSequenceValue(in)
         /\ Len(out.items) = Len(in.items)
         /\ \A i \in 1..Len(in.items) : SameShape(in.items[i], out.items[i])
    ELSE out = in

RECURSIVE Depth(_)
Depth(v) ==
    IF ~IsContainerValue(v) THEN 0
    ELSE IF v.items = <<>> THEN 1
    ELSE 1 + Depth(v.items[CHOOSE i \in 1..Len(v.items) :
                               \A j \in 1..Len(v.items) : Depth(v.items[j]) <= Depth(v.items[i])])

C7_EmptyWitness ==
    /\ pc = "returned"
    /\ data = SequenceOf("tuple", <<>>)
    /\ result = data

\* the same batch with the device of every tensor blanked
RECURSIVE Undeviced(_)
Undeviced(v) ==
    IF v.type = "Tensor" THEN [v EXCEPT !.device = "-"]
    ELSE [v EXCEPT !.items = [i \in 1..Len(v.items) |-> Undeviced(v.items[i])]]

RECURSIVE TensorsOn(_, _)
TensorsOn(v, device) ==
    IF v.type = "Tensor" THEN v.device = device
    ELSE \A i \in 1..Len(v.items) : TensorsOn(v.items[i], device)

RECURSIVE CountTensors(_)
CountTensors(v) ==
    IF v.type = "Tensor" THEN 1
    ELSE IF v.items = <<>> THEN 0
    ELSE CountTensors(v.items[1]) + CountTensors([v EXCEPT !.items = Tail(@)])

Rebuilt(v, outs) ==
    IF IsMappingValue(v) THEN Construct(v.type, <<DictComprehension(v, outs)>>)
    ELSE IF IsNamedTupleValue(v) THEN Construct(v.type, outs)
    ELSE Construct(v.type, <<ListComprehension(v, outs)>>)

ChildrenReturned(p, v) == \A i \in 1..Len(v.items) : Returned(Append(p, i))
ChildValues(p, v) == [i \in 1..Len(v.items) |-> RetVal(Append(p, i))]

FunctionFailedAt(j) == ~Call(function, calls[j].arg, calls[j].args).ok
RebuildFailedAt(i) ==
    LET p == entered[i].path
        v == NodeAt(data, p)
    IN /\ ~Matches(v)
       /\ IsContainerValue(v)
       /\ ChildrenReturned(p, v)
       /\ ~Rebuilt(v, ChildValues(p, v)).ok

\* C9: when the function or a reconstruction raises at a node, the outermost
\* call ends with exactly that exception: nothing is returned, the failing
\* call was made once, and no step follows: no further node is visited.
C9_FailurePropagates ==
    /\ OnInput
    /\ \A j \in 1..Len(calls) :
          FunctionFailedAt(j) =>
             /\ pc = "raised"
             /\ j = Len(calls)
             /\ exc = Call(function, calls[j].arg, calls[j].args).exc
    /\ \A i \in 1..Len(entered) :
          RebuildFailedAt(i) =>
             LET p == entered[i].path
                 v == NodeAt(data, p)
             IN \/ pc = "running" /\ Top.path = p /\ Len(Top.out) = Len(v.items)
                \/ pc = "raised" /\ exc = Rebuilt(v, ChildValues(p, v)).exc
    /\ pc = "raised" =>
          /\ result = NoValue
          /\ stack = <<>>
          /\ ~Returned(<<>>)
          /\ ~ENABLED Next
          /\ \/ Len(calls) > 0 /\ FunctionFailedAt(Len(calls))
             \/ \E i \in 1..Len(entered) : RebuildFailedAt(i)
    /\ \A i, j \in 1..Len(calls) : calls[i].path = calls[j].path => i = j

\* the function raises on the first of two leaves: the second is never visited
C9_Witness ==
    /\ pc = "raised"
    /\ data.type = "tuple" /\ Len(data.items) = 2
    /\ data.items[1].type = "str"
    /\ data.items[2].type = "str"
    /\ dtype = {"str"}
    /\ function.name = "add"
    /\ Len(calls) = 1 /\ calls[1].path = <<1>>
    /\ EnteredPaths = {<<>>, <<1>>}
    /\ exc = "TypeError: unsupported operand type(s) for +"
    /\ result = NoValue

\* a reconstruction raises after two leaves were mapped: their sibling is
\* never visited and no partly mapped collection is returned
C9_RebuildWitness ==
    /\ pc = "raised"
    /\ data.type = "tuple" /\ Len(data.items) = 2
    /\ data.items[1].type = "defaultdict"
    /\ Matches(data.items[2])
    /\ Len(calls) = 2
    /\ EnteredPaths = {<<>>, <<1>>, <<1, 1>>, <<1, 2>>}
    /\ exc = "TypeError: first argument must be callable or None"
    /\ result = NoValue

\* the traversal of the input, as sequences of paths, depth first and left to
\* right: the matching leaf occurrences; every node a call is made on, in call
\* order; and the same nodes in return order
RECURSIVE Walk(_, _, _, _)
Walk(kind, v, p, i) ==
    IF i > Len(v.items) THEN <<>>
    ELSE LET c == v.items[i]
             q == Append(p, i)
             inner == IF ~Matches(c) /\ IsContainerValue(c) THEN Walk(kind, c, q, 1) ELSE <<>>
             here == IF kind = "leaves" /\ ~Matches(c) THEN <<>> ELSE <<q>>
         IN (IF kind = "post" THEN inner \o here ELSE here \o inner)
            \o Walk(kind, v, p, i + 1)

Traversal(kind) == Walk(kind, SequenceOf("list", <<data>>), <<>>, 1)
PathOf(q) == Tail(q)
IsPrefixOf(s, t) == Len(s) <= Len(t) /\ \A i \in 1..Len(s) : s[i].path = PathOf(t[i])

\* the state of a walk that is depth first, left to right and on the input only
DepthFirstWalk ==
    pc # "idle" =>
       /\ IsPrefixOf(calls, Traversal("leaves"))
       /\ IsPrefixOf(entered, Traversal("pre"))
       /\ IsPrefixOf(rets, Traversal("post"))
       /\ \A j \in 1..Len(calls) :
             calls[j].arg = NodeAt(data, calls[j].path) /\ calls[j].args = args
       /\ \A n \in 1..Len(stack) :
             /\ ValidPath(data, stack[n].path)
             /\ stack[n].data = NodeAt(data, stack[n].path)
             /\ n > 1 => stack[n].path = Append(stack[n - 1].path, Len(stack[n - 1].out) + 1)
       /\ pc = "running" => (stack # <<>> /\ ENABLED Next)
       /\ pc = "returned" =>
             /\ Len(calls) = Len(Traversal("leaves"))
             /\ Len(entered) = Len(Traversal("pre"))
             /\ Len(rets) = Len(Traversal("post"))
             /\ stack = <<>>
             /\ ~ENABLED Next

\* every step visits a new node, calls the function, returns from a node, or
\* ends the call with an exception
Progress ==
    \/ Len(entered') + Len(calls') + Len(rets') > Len(entered) + Len(calls) + Len(rets)
    \/ pc # "raised" /\ pc' = "raised"

\* C10: the function is called exactly once on each matching leaf occurrence
\* and on nothing else, depth first and left to right; a container is rebuilt
\* only after all its children were mapped; what the function returns is never
\* traversed; and the call terminates: a running call always has a next step,
\* and every step advances the walk of the finite input.
C10_DepthFirstOnce == []DepthFirstWalk /\ [][Progress]_vars

C10_Witness ==
    /\ pc = "returned"
    /\ function.name = "wrap"
    /\ dtype = {"int", "Tensor"}
    /\ data.type = "list" /\ Len(data.items) = 2
    /\ data.items[1].type = "Point"
    /\ data.items[2].type = "int"
    /\ [j \in 1..Len(calls) |-> calls[j].path] = <<(<<1, 1>>), (<<1, 2>>), (<<2>>)>>
    /\ [k \in 1..Len(rets) |-> rets[k].path] = <<(<<1, 1>>), (<<1, 2>>), (<<1>>), (<<2>>), (<<>>)>>
    /\ result.items[2] = SequenceOf("list", <<IntVal(1), IntVal(1)>>)
====
